---- MODULE Spec2Model ----
(***************************************************************************)
(* Model of function_app.py: the module-level configuration loading, the   *)
(* batch loop run_simulation_batch and the HTTP entry point                *)
(* http_trigger_function.  External services (pandas, the completion       *)
(* service, the document store, uuid4) are nondeterministic choices over   *)
(* the outcomes they can produce.                                          *)
(***************************************************************************)
EXTENDS Integers, Sequences, FiniteSets, TLC

(* ---------------- bounds of the model ---------------- *)

\* largest number of rows of victory.csv that is explored
MaxRows == 2

(* ---------------- program constants ---------------- *)

\* str(uuid.uuid4())[:8]
SuffixLen == 8

\* os.environ[...] lookups without a default (AZURE_OPENAI_DEPLOYMENT has one)
RequiredSettings ==
    {"AZURE_OPENAI_ENDPOINT", "AZURE_OPENAI_KEY", "COSMOS_ENDPOINT",
     "COSMOS_KEY", "COSMOS_DATABASE_ID", "COSMOS_CONTAINER_ID"}

StatusLiterals == {"CONTRADICTION", "CONSEQUENCE"}

HardenerLiterals == {"PHYSICAL", "TEMPORAL", "SOCIAL", "OTHER"}

\* the literal list assigned to INITIAL_HISTORY
BaseStatements ==
    << "The world is governed by the principle that Logic is Truth (L = T).",
       "All established facts are immutable until logically proven otherwise.",
       "A character's identity is fundamentally linked to their accepted or rejected origin story." >>

(* ---------------- Python exception classes ---------------- *)

\* EnvironmentError is an alias of OSError in Python 3
Resolve(cls) == IF cls = "EnvironmentError" THEN "OSError" ELSE cls

\* direct base class of each exception class that can be raised here
ParentClass(cls) ==
    CASE cls = "FileNotFoundError"       -> "OSError"
      [] cls = "OSError"                 -> "Exception"
      [] cls = "ParserError"             -> "ValueError"
      [] cls = "ValueError"              -> "Exception"
      [] cls = "TypeError"               -> "Exception"
      [] cls = "OpenAIError"             -> "Exception"
      [] cls = "APIConnectionError"      -> "OpenAIError"
      [] cls = "ValidationError"         -> "ValueError"
      [] cls = "CosmosHttpResponseError" -> "Exception"
      [] cls = "Exception"               -> "BaseException"
      [] OTHER                           -> "BaseException"

RECURSIVE IsInstance(_, _)
\* isinstance(e, cls), i.e. what an `except cls` clause matches
IsInstance(e, cls) ==
    IF Resolve(e) = Resolve(cls) THEN TRUE
    ELSE IF Resolve(e) = "BaseException" THEN FALSE
    ELSE IsInstance(ParentClass(Resolve(e)), cls)

(* ---------------- the input file ---------------- *)

\* A cell as pandas hands it to the loop: its Python type and its text.
StrCell(s) == [py |-> "str", text |-> s]

Int64Cell(s) == [py |-> "numpy.int64", text |-> s]

\* rows of a file with text columns (object dtype)
StrRows ==
    { [ID |-> <<"V", "7">>, Category |-> "Combat",
       Statement |-> StrCell("I cannot be harmed by steel."), Title |-> "Steel Immunity"],
      [ID |-> <<"V", "7">>, Category |-> "Magic",
       Statement |-> StrCell("I never sleep."), Title |-> "Sleepless"],
      [ID |-> <<"V", "7", "-", "a">>, Category |-> "Combat",
       Statement |-> StrCell("I never sleep."), Title |-> "Sleepless"] }

\* rows of a file whose four columns are all integers: iterrows() then yields
\* numpy.int64 scalars
IntRows ==
    { [ID |-> <<"7">>, Category |-> "3", Statement |-> Int64Cell("42"), Title |-> "9"] }

SeqsUpTo(S, n) == UNION { [1..k -> S] : k \in 0..n }

\* the frames pd.read_csv can return
Files == SeqsUpTo(StrRows, MaxRows) \cup SeqsUpTo(IntRows, MaxRows)

(* ---------------- pure helpers of the loop body ---------------- *)

\* f"The current game context is focused on the '{row['Category']}' domain."
CategoryStatement(cat) ==
    "The current game context is focused on the '" \o cat \o "' domain."

\* BuildHistory as it would be with an in-place extension of the base list
\* (INITIAL_HISTORY.append(...) through an alias)
BuildHistory_InPlace(base, cat) ==
    [base |-> base \o << CategoryStatement(cat) >>,
     current |-> base \o << CategoryStatement(cat) >>]

\* current_history = INITIAL_HISTORY + [f"..."]: list + list builds a new list
\* (current) and leaves its left operand (base) as it was
BuildHistory(base, cat) ==
    [base |-> base, current |-> base \o << CategoryStatement(cat) >>]

\* json.dumps accepts str, not numpy.int64
JsonSerializable(cell) == cell.py \in {"str", "int", "float", "bool"}

\* json.dumps({"truth_input": ..., "truth_history": ...})
JsonDumps(cell, history) ==
    [json |-> [truth_input |-> cell.text, truth_history |-> history]]

\* the values uuid4's first 8 characters are drawn from (a sample: 8 equal hex digits)
Suffixes == { [i \in 1..SuffixLen |-> d] : d \in {"a", "b"} }

\* MakeId as it would be if the case identifier were left out of the id
MakeId_SuffixOnly(caseId, suffix) == <<"-">> \o suffix

\* f"{row['ID']}-{str(uuid.uuid4())[:8]}"
MakeId(caseId, suffix) == caseId \o <<"-">> \o suffix

\* SchemaValid as it would be if hardener_type were a plain str field
SchemaValid_StatusOnly(r) == r.status \in StatusLiterals

\* pydantic validation of the response against L_T_Output
SchemaValid(r) ==
    /\ r.status \in StatusLiterals
    /\ r.hardener_type \in HardenerLiterals

\* what the completion service may answer for a request
RawResponses(ti, hist) ==
    { [id |-> <<"m">>, truth_input |-> ti, truth_history |-> hist,
       status |-> "CONSEQUENCE", detail |-> "d1", hardener_type |-> "PHYSICAL"],
      [id |-> <<"m">>, truth_input |-> "a paraphrase", truth_history |-> <<>>,
       status |-> "CONTRADICTION", detail |-> "d2", hardener_type |-> "OTHER"],
      [id |-> <<"m">>, truth_input |-> ti, truth_history |-> hist,
       status |-> "MAYBE", detail |-> "d3", hardener_type |-> "SOCIAL"],
      [id |-> <<"m">>, truth_input |-> ti, truth_history |-> hist,
       status |-> "CONSEQUENCE", detail |-> "d4", hardener_type |-> "MAGICAL"] }

\* the row handler as it would be with `except ValueError`
CaughtByRowHandler_ValueErrorOnly(e) == IsInstance(e, "ValueError")

\* `except Exception` of the row's try block
CaughtByRowHandler(e) == IsInstance(e, "Exception")

\* the iteration as it would be if it skipped every other row
NextIndex_SkipsRow(i) == i + 2

\* `for index, row in df.iterrows()`: the row after row number i
NextIndex(i) == i + 1

\* the success response as it would be with status 202 (accepted)
SuccessResponse_Accepted == [status |-> 202, kind |-> "success"]

\* the three responses of http_trigger_function
SuccessResponse == [status |-> 200, kind |-> "success"]

ConfigErrorResponse == [status |-> 500, kind |-> "config_error"]

RuntimeErrorResponse == [status |-> 500, kind |-> "runtime_error"]

\* container.upsert_item: insert, or replace the document with the same id
Upsert(store, doc) == { d \in store : d.id # doc.id } \cup {doc}

\* an unset object-valued local
None == [none |-> TRUE]

\* no exception in flight
NoException == "NoException"

(* ---------------- state ---------------- *)

VARIABLES
    env,              \* the settings present in os.environ
    pc,               \* position of the single thread of control
    exc,              \* the exception in flight / that escaped, or None
    INITIAL_HISTORY,  \* local of run_simulation_batch
    df,               \* the frame read from the csv
    idx,              \* number of the row the loop is at (0 before the first)
    truth_input,      \* loop locals
    current_history,
    user_message,
    response,
    result_dict,
    container,        \* the documents in the store
    events,           \* completion calls, upserts and log lines, in order
    http_response     \* what http_trigger_function returned, or None

vars == << env, pc, exc, INITIAL_HISTORY, df, idx, truth_input, current_history,
           user_message, response, result_dict, container, events, http_response >>

locals == << truth_input, current_history, user_message, response, result_dict >>

Row == df[idx]

Ev(kind, info) == [kind |-> kind, row |-> idx, info |-> info]

Init ==
    /\ env \in SUBSET RequiredSettings
    /\ pc = "import"
    /\ exc = NoException
    /\ INITIAL_HISTORY = << >>
    /\ df = << >>
    /\ idx = 0
    /\ truth_input = None
    /\ current_history = << >>
    /\ user_message = None
    /\ response = None
    /\ result_dict = None
    /\ container = {}
    /\ events = << >>
    /\ http_response = None

(* ---------------- module import ---------------- *)

\* lines 28-40: read the settings; a missing one raises EnvironmentError while
\* the module is being imported, so nothing below it is ever defined
LoadModule ==
    /\ pc = "import"
    /\ IF RequiredSettings \subseteq env
         THEN pc' = "idle" /\ exc' = exc
         ELSE pc' = "import_failed" /\ exc' = "EnvironmentError"
    /\ UNCHANGED << env, INITIAL_HISTORY, df, idx, locals, container, events,
                    http_response >>

(* ---------------- http_trigger_function, entry ---------------- *)

\* lines 142-150: log the request and call run_simulation_batch("victory.csv")
ReceiveRequest ==
    /\ pc = "idle"
    /\ http_response = None
    /\ pc' = "cosmos"
    /\ events' = Append(events, Ev("log_request", None))
    /\ UNCHANGED << env, exc, INITIAL_HISTORY, df, idx, locals, container,
                    http_response >>

(* ---------------- run_simulation_batch, before the loop ---------------- *)

\* lines 73-82: INITIAL_HISTORY, then the Cosmos client, database, container
InitCosmosClient ==
    /\ pc = "cosmos"
    /\ INITIAL_HISTORY' = BaseStatements
    /\ \/ pc' = "read_csv" /\ exc' = exc
       \/ pc' = "raised" /\ exc' = "ValueError"
    /\ UNCHANGED << env, df, idx, locals, container, events, http_response >>

\* lines 85-87: pd.read_csv and the starting log line
ReadCsv ==
    /\ pc = "read_csv"
    /\ \/ \E f \in Files :
            /\ df' = f
            /\ events' = Append(events, Ev("log_start", Len(f)))
            /\ pc' = "openai"
            /\ exc' = exc
       \/ /\ \E e \in {"FileNotFoundError", "ParserError"} : exc' = e
          /\ pc' = "raised"
          /\ UNCHANGED << df, events >>
    /\ UNCHANGED << env, INITIAL_HISTORY, idx, locals, container, http_response >>

\* lines 90-94: the AzureOpenAI client
InitOpenAIClient ==
    /\ pc = "openai"
    /\ \/ pc' = "loop" /\ exc' = exc
       \/ pc' = "raised" /\ exc' = "OpenAIError"
    /\ UNCHANGED << env, INITIAL_HISTORY, df, idx, locals, container, events,
                    http_response >>

(* ---------------- run_simulation_batch, the loop ---------------- *)

\* line 96: next row, or leave the loop
LoopHead ==
    /\ pc = "loop"
    /\ IF NextIndex(idx) <= Len(df)
         THEN idx' = NextIndex(idx) /\ pc' = "build"
         ELSE idx' = idx /\ pc' = "summary"
    /\ UNCHANGED << env, exc, INITIAL_HISTORY, df, locals, container, events,
                    http_response >>

\* lines 97-106, outside the try block: truth_input, current_history and the
\* json payload; a TypeError of json.dumps leaves run_simulation_batch
BuildRequest ==
    /\ pc = "build"
    /\ LET h == BuildHistory(INITIAL_HISTORY, Row.Category) IN
         /\ truth_input' = Row.Statement
         /\ INITIAL_HISTORY' = h.base
         /\ current_history' = h.current
         /\ IF JsonSerializable(Row.Statement)
              THEN /\ user_message' = JsonDumps(Row.Statement, h.current)
                   /\ pc' = "call"
                   /\ exc' = exc
              ELSE /\ user_message' = user_message
                   /\ pc' = "raised"
                   /\ exc' = "TypeError"
    /\ UNCHANGED << env, df, idx, response, result_dict, container, events,
                    http_response >>

\* an exception raised inside the try block: to the handler of line 131 if it
\* matches, out of run_simulation_batch otherwise
RaiseInRow(e) ==
    /\ exc' = e
    /\ pc' = IF CaughtByRowHandler(e) THEN "log_err" ELSE "raised"

\* lines 110-118: the completion call with response_model=L_T_Output
CallCompletion ==
    /\ pc = "call"
    /\ \/ /\ RaiseInRow("APIConnectionError")
          /\ events' = Append(events, Ev("call", [sent |-> user_message, raw |-> None, outcome |-> "error"]))
          /\ UNCHANGED response
       \/ \E r \in RawResponses(user_message.json.truth_input,
                                user_message.json.truth_history) :
            IF SchemaValid(r)
              THEN /\ response' = r
                   /\ pc' = "prepare"
                   /\ exc' = exc
                   /\ events' = Append(events,
                          Ev("call", [sent |-> user_message, raw |-> r, outcome |-> "valid"]))
              ELSE /\ RaiseInRow("ValidationError")
                   /\ events' = Append(events,
                          Ev("call", [sent |-> user_message, raw |-> r, outcome |-> "invalid"]))
                   /\ UNCHANGED response
    /\ UNCHANGED << env, INITIAL_HISTORY, df, idx, truth_input, current_history,
                    user_message, result_dict, container, http_response >>

\* lines 121-124: model_dump() and the overwrite of 'id'
PrepareResult ==
    /\ pc = "prepare"
    /\ \E s \in Suffixes :
         result_dict' = [response EXCEPT !.id = MakeId(Row.ID, s)]
    /\ pc' = "upsert"
    /\ UNCHANGED << env, exc, INITIAL_HISTORY, df, idx, truth_input,
                    current_history, user_message, response, container, events,
                    http_response >>

\* line 127: container.upsert_item(result_dict)
UpsertItem ==
    /\ pc = "upsert"
    /\ \/ /\ container' = Upsert(container, result_dict)
          /\ events' = Append(events, Ev("upsert", result_dict))
          /\ pc' = "log_ok"
          /\ exc' = exc
       \/ /\ RaiseInRow("CosmosHttpResponseError")
          /\ events' = Append(events, Ev("upsert_error", result_dict))
          /\ UNCHANGED container
    /\ UNCHANGED << env, INITIAL_HISTORY, df, idx, locals, http_response >>

\* line 129: the success log line
LogSuccess ==
    /\ pc = "log_ok"
    /\ events' = Append(events,
           Ev("log_ok", [id |-> Row.ID, title |-> Row.Title, status |-> result_dict.status]))
    /\ pc' = "loop"
    /\ UNCHANGED << env, exc, INITIAL_HISTORY, df, idx, locals, container,
                    http_response >>

\* lines 131-133: the handler logs the case identifier, the statement and the
\* error; the exception is swallowed
LogError ==
    /\ pc = "log_err"
    /\ events' = Append(events,
           Ev("log_error", [id |-> Row.ID, statement |-> truth_input.text, error |-> exc]))
    /\ exc' = NoException
    /\ pc' = "loop"
    /\ UNCHANGED << env, INITIAL_HISTORY, df, idx, locals, container, http_response >>

\* line 135: the summary log line, then return
LogSummary ==
    /\ pc = "summary"
    /\ events' = Append(events, Ev("log_summary", None))
    /\ pc' = "returned"
    /\ UNCHANGED << env, exc, INITIAL_HISTORY, df, idx, locals, container,
                    http_response >>

(* ---------------- http_trigger_function, exit ---------------- *)

\* lines 152-155
RespondSuccess ==
    /\ pc = "returned"
    /\ http_response' = SuccessResponse
    /\ pc' = "responded"
    /\ UNCHANGED << env, exc, INITIAL_HISTORY, df, idx, locals, container, events >>

\* lines 156-162: except EnvironmentError
RespondConfigError ==
    /\ pc = "raised"
    /\ IsInstance(exc, "EnvironmentError")
    /\ events' = Append(events, Ev("log_config_error", exc))
    /\ http_response' = ConfigErrorResponse
    /\ pc' = "responded"
    /\ UNCHANGED << env, exc, INITIAL_HISTORY, df, idx, locals, container >>

\* lines 163-169: except Exception
RespondRuntimeError ==
    /\ pc = "raised"
    /\ ~ IsInstance(exc, "EnvironmentError")
    /\ IsInstance(exc, "Exception")
    /\ events' = Append(events, Ev("log_runtime_failed", exc))
    /\ http_response' = RuntimeErrorResponse
    /\ pc' = "responded"
    /\ UNCHANGED << env, exc, INITIAL_HISTORY, df, idx, locals, container >>

Next ==
    \/ LoadModule
    \/ ReceiveRequest
    \/ InitCosmosClient
    \/ ReadCsv
    \/ InitOpenAIClient
    \/ LoopHead
    \/ BuildRequest
    \/ CallCompletion
    \/ PrepareResult
    \/ UpsertItem
    \/ LogSuccess
    \/ LogError
    \/ LogSummary
    \/ RespondSuccess
    \/ RespondConfigError
    \/ RespondRuntimeError

Spec == Init /\ [][Next]_vars

TypeOK ==
    /\ env \subseteq RequiredSettings
    /\ idx \in 0..(MaxRows + 1)
    /\ df \in Files

(* ---------------- reading the event trace ---------------- *)

\* positions of the events of one kind
EventsOf(kind) == { k \in 1..Len(events) : events[k].kind = kind }

\* positions of the events of one kind made for row i
RowEvents(kind, i) == { k \in EventsOf(kind) : events[k].row = i }

Rows == 1..Len(df)

\* the history the contract prescribes for row i
ExpectedHistory(i) ==
    << BaseStatements[1], BaseStatements[2], BaseStatements[3],
       CategoryStatement(df[i].Category) >>

\* the run is over and run_simulation_batch returned normally
BatchReturned == EventsOf("log_summary") # {}

\* every row went through the whole pipeline without an error
AllRowsSucceeded ==
    /\ BatchReturned
    /\ EventsOf("log_error") = {}

(* ---------------- C1 ---------------- *)

CallFailedRows == { events[k].row : k \in { c \in EventsOf("call") : events[c].info.outcome = "error" } }

\* row i was served: a schema-valid response and an upsert that did not raise
Served(i) ==
    /\ \E c \in RowEvents("call", i) : events[c].info.outcome = "valid"
    /\ RowEvents("upsert_error", i) = {}

\* C2: a failed completion call does not stop the batch: no exception leaves
\* run_simulation_batch, the failing row gets no upsert, and when the batch
\* returns every row of the file has had its completion call and every
\* served row has its upsert.
C2_CallFailureDoesNotStopBatch ==
    CallFailedRows # {} =>
        /\ pc # "raised"
        /\ http_response \in {None, SuccessResponse}
        /\ \A i \in CallFailedRows : RowEvents("upsert", i) = {}
        /\ pc \in {"returned", "responded"} =>
              \A j \in Rows :
                 /\ Cardinality(RowEvents("call", j)) = 1
                 /\ Served(j) => Cardinality(RowEvents("upsert", j)) = 1

\* the first row's call failed and the second row was written all the same
C2_Witness ==
    /\ pc = "returned"
    /\ 1 \in CallFailedRows
    /\ RowEvents("upsert", 2) # {}

(* ---------------- C3 ---------------- *)

\* C3 as stated: a failure in steps 2-5 of a row is logged and the loop goes
\* on, so an exception leaves run_simulation_batch (and a 500 reaches the
\* caller) only when it was raised before the first row.
C3_AsStated ==
    /\ pc = "raised" => idx = 0
    /\ (http_response # None /\ http_response.status = 500) => idx = 0

(* ---------------- C4 ---------------- *)

\* the tags of a raw response are outside the schema's literals
TagsOutside(r) ==
    \/ r.status \notin {"CONTRADICTION", "CONSEQUENCE"}
    \/ r.hardener_type \notin {"PHYSICAL", "TEMPORAL", "SOCIAL", "OTHER"}

\* rows whose completion response carried a tag outside the allowed sets
BadTagRows ==
    { events[k].row : k \in { c \in EventsOf("call") :
          events[c].info.outcome # "error" /\ TagsOutside(events[c].info.raw) } }

\* row i's iteration is over
RowOver(i) == i < idx \/ (i = idx /\ pc \in {"loop", "summary", "returned", "responded"})

\* C4: a response with a tag outside the allowed sets makes the row a failure:
\* no upsert for it, an error line once the row is over; every stored
\* document has both tags inside the allowed sets.
C4_BadTagsNeverStored ==
    /\ \A i \in BadTagRows :
          /\ RowEvents("upsert", i) = {}
          /\ RowOver(i) => Cardinality(RowEvents("log_error", i)) = 1
    /\ \A d \in container : ~ TagsOutside(d)

\* a row answered with a bad tag is over, logged and unwritten, next to a
\* written one
C4_Witness ==
    /\ \E i \in BadTagRows : RowOver(i) /\ RowEvents("log_error", i) # {}
    /\ container # {}

(* ---------------- C5 ---------------- *)

SettingMissing == ~ (RequiredSettings \subseteq env)

\* C5 as stated: with a required setting missing, once the module has been
\* loaded http_trigger_function has answered with status 500, and no
\* completion call and no storage write was made.
C5_AsStated ==
    (SettingMissing /\ pc # "import") =>
        /\ http_response # None
        /\ http_response.status = 500
        /\ EventsOf("call") = {}
        /\ container = {}

(* ---------------- C6 ---------------- *)

\* C6 as stated: the configuration-error response is given only when a
\* required setting is absent; any other exception that leaves
\* run_simulation_batch is answered with the generic runtime failure.
C6_AsStated ==
    /\ http_response = ConfigErrorResponse => SettingMissing
    /\ (pc = "responded" /\ exc # NoException /\ ~ SettingMissing)
          => http_response = RuntimeErrorResponse

(* ---------------- C7 ---------------- *)

\* C7: every history sent to the completion service is the 3 base statements
\* followed by the statement of that row's category, 4 entries in this
\* order, and the base list stays the 3 base statements while the loop runs.
C7_HistoryIsBasePlusCategory ==
    /\ \A k \in EventsOf("call") :
          /\ events[k].info.sent.json.truth_history = ExpectedHistory(events[k].row)
          /\ Len(events[k].info.sent.json.truth_history) = 4
    /\ idx >= 1 => INITIAL_HISTORY = BaseStatements
    /\ pc \in {"call", "prepare", "upsert", "log_ok", "log_err"}
          => current_history = ExpectedHistory(idx)

\* the second row of a file with two different categories has been sent
C7_Witness ==
    /\ Len(df) >= 2
    /\ df[1].Category # df[2].Category
    /\ RowEvents("call", 2) # {}

(* ---------------- C8 ---------------- *)

\* s starts with the sequence p
StartsWith(s, p) == Len(s) >= Len(p) /\ SubSeq(s, 1, Len(p)) = p

\* C8 as stated: every document written for a row has an id starting with
\* the row's case identifier and '-', the row's statement as truth_input
\* and the row's 4-entry history as truth_history, whatever the service
\* answered.
C8_AsStated ==
    \A k \in EventsOf("upsert") :
        LET i == events[k].row
            d == events[k].info
        IN  /\ StartsWith(d.id, df[i].ID \o <<"-">>)
            /\ d.truth_input = df[i].Statement.text
            /\ d.truth_history = ExpectedHistory(i)

(* ---------------- C9 ---------------- *)

RowKinds == {"call", "upsert", "upsert_error", "log_ok", "log_error"}

\* positions of the log lines of row i
RowLogs(i) == RowEvents("log_ok", i) \cup RowEvents("log_error", i)

\* row i is between its completion call and its log line
RowInProgress(i) == i = idx /\ pc \in {"prepare", "upsert", "log_ok", "log_err"}

\* C9: the events of the rows come in file order, one row after the other; a
\* row has at most one completion call and one upsert, in the order call,
\* upsert, log line; an upsert follows a schema-valid response of its own
\* row; a row that made its call ends with exactly one log line, the success
\* line exactly when it was written; the summary line is written at most
\* once, exactly once when run_simulation_batch returns, after every row's
\* call and log line.
C9_SequentialOrder ==
    /\ \A k, l \in 1..Len(events) :
          (k < l /\ events[k].kind \in RowKinds /\ events[l].kind \in RowKinds)
              => events[k].row <= events[l].row
    /\ \A i \in Rows :
          /\ Cardinality(RowEvents("call", i)) <= 1
          /\ Cardinality(RowEvents("upsert", i)) <= 1
          /\ Cardinality(RowLogs(i)) <= 1
          /\ \A u \in RowEvents("upsert", i) :
                \E c \in RowEvents("call", i) :
                    c < u /\ events[c].info.outcome = "valid"
                          /\ ~ TagsOutside(events[c].info.raw)
          /\ \A g \in RowLogs(i) :
                /\ \E c \in RowEvents("call", i) : c < g
                /\ \A u \in RowEvents("upsert", i) : u < g
          /\ (RowEvents("call", i) # {} /\ ~ RowInProgress(i))
                => Cardinality(RowLogs(i)) = 1
          /\ RowEvents("log_ok", i) # {} <=> (RowEvents("upsert", i) # {} /\ ~ RowInProgress(i))
    /\ Cardinality(EventsOf("log_summary")) <= 1
    /\ pc = "returned" => Cardinality(EventsOf("log_summary")) = 1
    /\ \A m \in EventsOf("log_summary") :
          /\ \A k \in 1..Len(events) : events[k].kind \in RowKinds => k < m
          /\ \A i \in Rows : RowEvents("call", i) # {} /\ RowLogs(i) # {}

\* a two-row run has returned, one row written and one row failed
C9_Witness ==
    /\ pc = "returned"
    /\ Len(df) = 2
    /\ EventsOf("log_ok") # {}
    /\ EventsOf("log_error") # {}

(* ---------------- C10 ---------------- *)

\* exception classes that a row's own calls raise inside the try block
RowErrorClasses == {"APIConnectionError", "ValidationError", "CosmosHttpResponseError"}

\* C10: once http_trigger_function has answered, the status is 200 with the
\* success message exactly when the row loop ran to its end, whatever the
\* rows' outcomes; it is 500 exactly when an exception left
\* run_simulation_batch, and that exception is never a per-row error.
C10_StatusIndependentOfRows ==
    pc = "responded" =>
        /\ BatchReturned <=> http_response = SuccessResponse
        /\ BatchReturned <=> http_response.status = 200
        /\ http_response.status = 500 <=> exc # NoException
        /\ http_response.status \in {200, 500}
        /\ exc \notin RowErrorClasses

\* a 200 answer after a run in which every row failed and nothing was stored
C10_Witness ==
    /\ pc = "responded"
    /\ http_response.status = 200
    /\ Len(df) >= 1
    /\ \A i \in Rows : RowEvents("log_error", i) # {}
    /\ container = {}

====
